---- MODULE Spec2Model ----
(***************************************************************************)
(* rqrs: the request builder Rq and its dispatcher Rq::apply (src/api.rs), *)
(* and the long-running-operation poller Payload::image                    *)
(* (src/ai/ycloudml/image.rs).                                             *)
(*                                                                         *)
(* Byte strings that the code validates byte by byte (header names, header *)
(* values, method names) are sequences of one-character strings, so that   *)
(* the validation and the lower-casing are computed, not assumed.          *)
(***************************************************************************)
EXTENDS Naturals, Sequences, FiniteSets, TLC

VARIABLES
    rq,       \* the Rq under construction (api.rs:18-26)
    err,      \* the error that aborted the builder chain, or NoErr
    call,     \* the builder/dispatch call made last and its arguments
    calls,    \* number of calls made on the builder so far
    net,      \* what the environment did to the last Rq::apply, or NoNet when
              \* the call failed on its own before it reached for the network
    rs,       \* the result of the last Rq::apply: Ok(Rs), Err(e) or NoRs
    sent,     \* the requests put on the wire, in order
    inserted, \* the HeaderMap::insert calls made on rq.headers, in order
    pc,       \* Payload::image: position in the function
    init_rs,  \* Payload::image: the Rs argument
    jwt,      \* Payload::image: the jwt argument
    prq,      \* Payload::image: the status request built at lines 139-143
    attempt,  \* Payload::image: iterations of the for loop entered so far
    fetched,  \* Payload::image: what each rq.apply() of the loop met
    sleeps,   \* Payload::image: number of sleeps completed
    clock,    \* Payload::image: seconds slept in total
    file,     \* Payload::image: the bytes written to the output file
    result    \* Payload::image: the returned Result<()>, or Running

rqvars    == <<rq, err, call, calls, net, rs, sent, inserted>>
imagevars == <<pc, init_rs, jwt, prq, attempt, fetched, sleeps, clock, file, result>>
vars      == <<rq, err, call, calls, net, rs, sent, inserted,
               pc, init_rs, jwt, prq, attempt, fetched, sleeps, clock, file, result>>

----------------------------------------------------------------------------
(* Result<T> *)

Ok(v) == [ok |-> TRUE, val |-> v]

Err(e) == [ok |-> FALSE, err |-> e]

NoErr == "none"

----------------------------------------------------------------------------
(* Characters *)

Upper == {"A","B","C","D","E","F","G","H","I","J","K","L","M",
          "N","O","P","Q","R","S","T","U","V","W","X","Y","Z"}

Lower == {"a","b","c","d","e","f","g","h","i","j","k","l","m",
          "n","o","p","q","r","s","t","u","v","w","x","y","z"}

Digit == {"0","1","2","3","4","5","6","7","8","9"}

\* the non-alphanumeric tchar of RFC 7230 (the asterisk and the backquote are
\* left out of the model's alphabet)
TokenSym == {"!","#","$","%","&","'","+","-",".","^","_","|","~"}

\* the other printable ASCII characters, space included
OtherVisible == {" ",",","/",":",";","<","=",">","?","@","[","]","{","}"}

UpperSeq == <<"A","B","C","D","E","F","G","H","I","J","K","L","M",
              "N","O","P","Q","R","S","T","U","V","W","X","Y","Z">>

LowerSeq == <<"a","b","c","d","e","f","g","h","i","j","k","l","m",
              "n","o","p","q","r","s","t","u","v","w","x","y","z">>

ToLower(c) ==
    IF c \in Upper
    THEN LowerSeq[CHOOSE i \in 1..Len(UpperSeq) : UpperSeq[i] = c]
    ELSE c

IsTokenChar(c) == c \in Upper \cup Lower \cup Digit \cup TokenSym

\* http::header::value::is_visible_ascii: 32 <= b < 127, or a tab
IsVisibleAscii(c) ==
    c \in Upper \cup Lower \cup Digit \cup TokenSym \cup OtherVisible \cup {"\t"}

----------------------------------------------------------------------------
(* reqwest::Method, HeaderName, HeaderValue as Rq uses them *)

GET == <<"G","E","T">>

POST == <<"P","O","S","T">>

PUT == <<"P","U","T">>

DELETE == <<"D","E","L","E","T","E">>

\* Method::from_str: the standard methods and any other non-empty token
\* (an extension method); the name is kept as written.
MethodFromStr(s) ==
    IF s # <<>> /\ \A i \in 1..Len(s) : IsTokenChar(s[i])
    THEN Ok(s)
    ELSE Err("InvalidMethod")

\* HeaderName::from_bytes: a non-empty token, stored in lower case
HeaderNameFromBytes(b) ==
    IF b # <<>> /\ \A i \in 1..Len(b) : IsTokenChar(b[i])
    THEN Ok([i \in 1..Len(b) |-> ToLower(b[i])])
    ELSE Err("InvalidHeaderName")

\* HeaderValue::from_str: every byte visible ASCII or a tab; not sensitive
HeaderValueFromStr(s) ==
    IF \A i \in 1..Len(s) : IsVisibleAscii(s[i])
    THEN Ok([value |-> s, sensitive |-> FALSE])
    ELSE Err("InvalidHeaderValue")

set_sensitive(val, flag) == [val EXCEPT !.sensitive = flag]

\* HeaderMap::insert written as entry(name).or_insert(val): the first value stays
HeaderMapInsertKeepsFirst(headers, name, val) ==
    [n \in DOMAIN headers \cup {name} |->
        IF n \in DOMAIN headers THEN headers[n] ELSE val]

\* HeaderMap::insert: one entry per (lower-case) name, the new value replaces
HeaderMapInsert(headers, name, val) ==
    [n \in DOMAIN headers \cup {name} |-> IF n = name THEN val ELSE headers[n]]

----------------------------------------------------------------------------
(* serde_json::Value *)

JNull == [kind |-> "null"]

JBool(b) == [kind |-> "bool", b |-> b]

JNum(n) == [kind |-> "number", n |-> n]

JStr(s) == [kind |-> "string", s |-> s]

JObj(f) == [kind |-> "object", fields |-> f]

EmptyMap == [k \in {} |-> JNull]

\* impl IndexMut<&str> for Value: null becomes an object, an object gets the
\* key; anything else panics
IndexSet(json, key, value) ==
    LET f == IF json.kind = "null" THEN EmptyMap ELSE json.fields
    IN  JObj([k \in DOMAIN f \cup {key} |-> IF k = key THEN value ELSE f[k]])

\* Option<T>
None == [some |-> FALSE]

Some(x) == [some |-> TRUE, val |-> x]

----------------------------------------------------------------------------
(* url::Url, as Bot::new and Rq::url use it.  A URL is kept as the base it *)
(* was resolved against and the reference joined to it.                    *)

\* Url::parse of a base: an absolute URL or a parse error
UrlParse(str) ==
    IF str \in {"https://reqres.in", "https://llm.api.cloud.yandex.net"}
    THEN Ok([base |-> str, ref |-> ""])
    ELSE Err("url::ParseError")

\* Url::join: a reference whose authority does not parse ("//[" opens an
\* IPv6 literal that never closes) is an error
UrlJoin(base, ref) ==
    IF ref \in {"//["}
    THEN Err("url::ParseError")
    ELSE Ok([base |-> base.base, ref |-> ref])

\* Bot::new (lib.rs:83-91)
BotNew(str) ==
    LET u == UrlParse(str)
    IN  IF u.ok THEN Ok([url |-> u.val, debug |-> FALSE]) ELSE u

----------------------------------------------------------------------------
(* Rq: the builder (api.rs:36-155).  Each operator takes self and returns  *)
(* what the method returns: the new Rq, or Result<Rq>.                     *)

New(bot) ==
    [bot     |-> bot,
     uri     |-> "",
     json    |-> JObj(EmptyMap),
     form    |-> <<>>,
     method  |-> GET,
     headers |-> EmptyMap,
     params  |-> <<>>]

from_static(str) ==
    LET bot == BotNew(str)
    IN  IF bot.ok THEN Ok(New(bot.val)) ELSE bot

uri(self, u) == [self EXCEPT !.uri = u]

\* method that accepts the four verbs of Rq::apply and nothing else
method_four_verbs(self, m) ==
    IF m \in {GET, POST, PUT, DELETE}
    THEN Ok([self EXCEPT !.method = m])
    ELSE Err("InvalidMethod")

method(self, m) ==
    LET r == MethodFromStr(m)
    IN  IF r.ok THEN Ok([self EXCEPT !.method = r.val]) ELSE r

\* add_secret_header that skips an invalid name as add_header does
add_secret_header_skip(self, header, value) ==
    LET v == HeaderValueFromStr(value)
        h == HeaderNameFromBytes(header)
    IN  IF ~v.ok THEN v
        ELSE IF ~h.ok THEN Ok(self)
        ELSE Ok([self EXCEPT
                   !.headers = HeaderMapInsert(@, h.val, set_sensitive(v.val, TRUE))])

\* the value is converted first (line 77), then the name (line 79)
add_secret_header(self, header, value) ==
    LET v == HeaderValueFromStr(value)
        h == HeaderNameFromBytes(header)
    IN  IF ~v.ok THEN v
        ELSE IF ~h.ok THEN h
        ELSE Ok([self EXCEPT
                   !.headers = HeaderMapInsert(@, h.val, set_sensitive(v.val, TRUE))])

\* add_header that converts the value before it looks at the name
add_header_value_first(self, header, value) ==
    LET h == HeaderNameFromBytes(header)
        v == HeaderValueFromStr(value)
    IN  IF ~v.ok THEN v
        ELSE IF ~h.ok THEN Ok(self)
        ELSE Ok([self EXCEPT !.headers = HeaderMapInsert(@, h.val, v.val)])

\* add_header that propagates the name error with `?`
add_header_name_fatal(self, header, value) ==
    LET h == HeaderNameFromBytes(header)
        v == HeaderValueFromStr(value)
    IN  IF ~h.ok THEN h
        ELSE IF ~v.ok THEN v
        ELSE Ok([self EXCEPT !.headers = HeaderMapInsert(@, h.val, v.val)])

\* the name is converted first (line 88): an invalid name returns Ok(self)
\* before the value is looked at (line 95)
add_header(self, header, value) ==
    LET h == HeaderNameFromBytes(header)
        v == HeaderValueFromStr(value)
    IN  IF ~h.ok THEN Ok(self)
        ELSE IF ~v.ok THEN v
        ELSE Ok([self EXCEPT !.headers = HeaderMapInsert(@, h.val, v.val)])

Accept == <<"A","c","c","e","p","t">>

ContentType == <<"C","o","n","t","e","n","t","-","T","y","p","e">>

ApplicationJson == <<"a","p","p","l","i","c","a","t","i","o","n","/","j","s","o","n">>

with_json(self) ==
    LET a == add_header(self, Accept, ApplicationJson)
    IN  IF a.ok THEN add_header(a.val, ContentType, ApplicationJson) ELSE a

\* add_params written as `self.params.extend(params)`: the pairs accumulate
add_params_extends(self, params) == [self EXCEPT !.params = @ \o params]

\* lines 110-114: the pairs are collected in order and assigned to self.params
add_params(self, params) == [self EXCEPT !.params = params]

\* for (key, value) in value.as_object()? { self.json[key] = value.clone() }
RECURSIVE LoadKeys(_, _, _)
LoadKeys(json, obj, keys) ==
    IF keys = {} THEN json
    ELSE LET k == CHOOSE x \in keys : TRUE
         IN  LoadKeys(IndexSet(json, k, obj[k]), obj, keys \ {k})

\* load_payload written as `self.json = value.clone()`: the body is replaced
load_payload_replaces(self, value) ==
    IF value.kind # "object"
    THEN Err("Payload value must be valid JSON")
    ELSE Ok([self EXCEPT !.json = value])

load_payload(self, value) ==
    IF value.kind # "object"
    THEN Err("Payload value must be valid JSON")
    ELSE Ok([self EXCEPT !.json = LoadKeys(@, value.fields, DOMAIN value.fields)])

add_payload(self, key, value) == [self EXCEPT !.json = IndexSet(@, key, value)]

add_form(self, key, value) == [self EXCEPT !.form = Append(@, <<key, value>>)]

url(self) == UrlJoin(self.bot.url, self.uri)

----------------------------------------------------------------------------
(* Response bodies.  A body is the text the server sends; the texts below  *)
(* are JSON written with ' for the double quote.                           *)

BodyObject == "{'a':1}"

BodyNull == "null"

BodyText == "oops"

BodyEmpty == ""

BodyPending == "{'id':'op1','description':'','done':false}"

BodyDoneNoResult == "{'id':'op1','description':'','done':true}"

BodyDone == "{'id':'op1','description':'','done':true,'response':{'@type':'t','image':'aGk=','modelVersion':'1'}}"

BodyDoneBadImage == "{'id':'op1','description':'','done':true,'response':{'@type':'t','image':'#','modelVersion':'1'}}"

BodyNoId == "{'description':'','done':false}"

Operation(done) ==
    ("id" :> JStr("op1")) @@ ("description" :> JStr("")) @@ ("done" :> JBool(done))

ImageObject(image) ==
    JObj(("@type" :> JStr("t")) @@ ("image" :> JStr(image)) @@ ("modelVersion" :> JStr("1")))

\* serde_json::from_str::<Value>: the value a text denotes, or a syntax error
FromStr(text) ==
    CASE text = BodyObject       -> Ok(JObj("a" :> JNum(1)))
      [] text = BodyNull         -> Ok(JNull)
      [] text = BodyPending      -> Ok(JObj(Operation(FALSE)))
      [] text = BodyDoneNoResult -> Ok(JObj(Operation(TRUE)))
      [] text = BodyDone         -> Ok(JObj(Operation(TRUE) @@ ("response" :> ImageObject("aGk="))))
      [] text = BodyDoneBadImage -> Ok(JObj(Operation(TRUE) @@ ("response" :> ImageObject("#"))))
      [] text = BodyNoId         -> Ok(JObj(("description" :> JStr("")) @@ ("done" :> JBool(FALSE))))
      [] OTHER                   -> Err("serde_json::Error")

----------------------------------------------------------------------------
(* Rs and Rq::apply (api.rs:29-34, 157-200) *)

\* StatusCode::default()
StatusCodeDefault == 200

\* Rs::default() with an empty object for data
RsDefaultEmptyObject == [data |-> JObj(EmptyMap), raw |-> None, status |-> StatusCodeDefault]

\* #[derive(Default)] for Rs: Value::default() is Null, Option is None
RsDefault == [data |-> JNull, raw |-> None, status |-> StatusCodeDefault]

\* StatusCode::is_success
is_success(status) == 200 <= status /\ status < 300

\* what the environment does to one Rq::apply: the HTTP client cannot be
\* built (lines 158-160), the send fails, or a response comes back whose
\* body can or cannot be read
ClientError == [kind |-> "client_error"]

SendError == [kind |-> "send_error"]

Response(status, body, readable) ==
    [kind |-> "response", status |-> status, body |-> body, readable |-> readable]

\* Request with the test on the JSON body: a non-empty JSON body is sent
\* even when form fields were added
RequestJsonWins(self, u) ==
    [verb    |-> self.method,
     url     |-> u,
     headers |-> self.headers,
     query   |-> self.params,
     body    |-> IF self.form = <<>> \/ self.json # JObj(EmptyMap)
                 THEN [kind |-> "json", json |-> self.json]
                 ELSE [kind |-> "form", form |-> self.form]]

\* the request as built at lines 162-177
Request(self, u) ==
    [verb    |-> self.method,
     url     |-> u,
     headers |-> self.headers,
     query   |-> self.params,
     body    |-> IF self.form = <<>>
                 THEN [kind |-> "json", json |-> self.json]
                 ELSE [kind |-> "form", form |-> self.form]]

\* Receive that keeps the text beside the parsed body
ReceiveKeepsRaw(n) ==
    IF n.kind = "send_error" THEN Err("reqwest::Error")
    ELSE IF ~n.readable THEN Err("reqwest::Error")
    ELSE IF ~is_success(n.status)
         THEN Ok([RsDefault EXCEPT !.raw = Some(n.body)])
    ELSE LET data == FromStr(n.body)
         IN  IF data.ok
             THEN Ok([RsDefault EXCEPT !.data = data.val, !.raw = Some(n.body)])
             ELSE Ok([RsDefault EXCEPT !.raw = Some(n.body)])

\* lines 179-199, once the request is sent
Receive(n) ==
    IF n.kind = "send_error" THEN Err("reqwest::Error")
    ELSE IF ~n.readable THEN Err("reqwest::Error")
    ELSE IF ~is_success(n.status)
         THEN Ok([RsDefault EXCEPT !.raw = Some(n.body)])
    ELSE LET data == FromStr(n.body)
         IN  IF data.ok
             THEN Ok([RsDefault EXCEPT !.data = data.val])
             ELSE Ok([RsDefault EXCEPT !.raw = Some(n.body)])

\* Rq::apply that sends the request a second time when the send fails
apply_resends(self, n) ==
    LET u == url(self)
    IN  IF n.kind = "client_error"
        THEN [res |-> Err("reqwest::Error"), wire |-> <<>>]
        ELSE IF ~u.ok THEN [res |-> u, wire |-> <<>>]
        ELSE IF self.method \notin {GET, POST, DELETE, PUT}
             THEN [res |-> Err("Unsupported HTTP method"), wire |-> <<>>]
        ELSE [res  |-> Receive(n),
              wire |-> IF n.kind = "send_error"
                       THEN <<Request(self, u.val), Request(self, u.val)>>
                       ELSE <<Request(self, u.val)>>]

\* Rq::apply: the returned Result<Rs> and the requests put on the wire
apply(self, n) ==
    LET u == url(self)
    IN  IF n.kind = "client_error"
        THEN [res |-> Err("reqwest::Error"), wire |-> <<>>]
        ELSE IF ~u.ok THEN [res |-> u, wire |-> <<>>]
        ELSE IF self.method \notin {GET, POST, DELETE, PUT}
             THEN [res |-> Err("Unsupported HTTP method"), wire |-> <<>>]
        ELSE [res |-> Receive(n), wire |-> <<Request(self, u.val)>>]

----------------------------------------------------------------------------
(* The builder chain as a state machine: a caller makes up to MaxCalls     *)
(* calls on one Rq; a call that returns Err ends the chain (the caller's   *)
(* `?`).  As in every caller of the repository, the configuration calls    *)
(* come first and Rq::apply, which borrows the Rq and may be repeated,     *)
(* comes after them.                                                       *)

MaxCalls == 3

BaseUrl == "https://reqres.in"

Uris == {"/api/users", "//["}

PATCH == <<"P","A","T","C","H">>

HEAD == <<"H","E","A","D">>

MethodNames == {GET, POST, PUT, DELETE, PATCH, HEAD, <<"g","e","t">>, <<>>, <<"G"," ","T">>}

HeaderNames == {<<"X","-","K">>, <<"x","-","k">>, <<"x"," ","k">>}

HeaderValues == {<<"a">>, <<"b">>, <<"a","\n","b">>}

ParamLists == {<<<<"page", "2">>>>, <<<<"a", "1">>, <<"b", "2">>>>}

Payloads == {JObj("a" :> JNum(1)), JObj(("a" :> JNum(2)) @@ ("b" :> JNum(3))), JStr("a")}

PayloadKeys == {"a", "baz"}

PayloadValues == {JStr("bar")}

FormFields == {<<"foo", "bar">>}

Statuses == {200, 204, 404, 500}

Bodies == {BodyObject, BodyNull, BodyText, BodyEmpty}

Network ==
    {ClientError, SendError}
    \cup {Response(st, b, TRUE) : st \in Statuses, b \in Bodies}
    \cup {Response(st, BodyText, FALSE) : st \in {200, 500}}

NoRs == [applied |-> FALSE]

Running == [running |-> TRUE]

NoNet == [kind |-> "none"]

Called(op, args) == [op |-> op, args |-> args]

RqInit ==
    /\ rq = from_static(BaseUrl).val
    /\ err = NoErr
    /\ call = Called("from_static", <<BaseUrl>>)
    /\ calls = 0
    /\ net = NoNet
    /\ rs = NoRs
    /\ sent = <<>>
    /\ inserted = <<>>

CanCall == err = NoErr /\ calls < MaxCalls

CanBuild == CanCall /\ rs = NoRs

\* a call returning Self
Returns(op, args, self) ==
    /\ CanBuild
    /\ rq' = self
    /\ call' = Called(op, args)
    /\ calls' = calls + 1
    /\ UNCHANGED <<err, net, rs, sent, inserted>>

\* a call returning Result<Self>, followed by `?` or unwrap()
Tries(op, args, r) ==
    /\ CanBuild
    /\ rq' = IF r.ok THEN r.val ELSE rq
    /\ err' = IF r.ok THEN NoErr ELSE r.err
    /\ call' = Called(op, args)
    /\ calls' = calls + 1
    /\ UNCHANGED <<net, rs, sent>>

Uri == \E u \in Uris : Returns("uri", <<u>>, uri(rq, u))

Method ==
    \E m \in MethodNames :
        Tries("method", <<m>>, method(rq, m)) /\ UNCHANGED inserted

\* the self.headers.insert(name, val) that add_secret_header (line 80) and
\* add_header (line 96) reach when both conversions succeed
Inserts(header, value, sensitive) ==
    IF HeaderNameFromBytes(header).ok /\ HeaderValueFromStr(value).ok
    THEN <<[name |-> header, value |-> value, sensitive |-> sensitive]>>
    ELSE <<>>

AddSecretHeader ==
    \E h \in HeaderNames, v \in HeaderValues :
        /\ Tries("add_secret_header", <<h, v>>, add_secret_header(rq, h, v))
        /\ inserted' = inserted \o Inserts(h, v, TRUE)

AddHeader ==
    \E h \in HeaderNames, v \in HeaderValues :
        /\ Tries("add_header", <<h, v>>, add_header(rq, h, v))
        /\ inserted' = inserted \o Inserts(h, v, FALSE)

WithJson ==
    /\ Tries("with_json", <<>>, with_json(rq))
    /\ inserted' = inserted \o Inserts(Accept, ApplicationJson, FALSE)
                             \o Inserts(ContentType, ApplicationJson, FALSE)

AddParams == \E ps \in ParamLists : Returns("add_params", <<ps>>, add_params(rq, ps))

LoadPayload ==
    \E v \in Payloads :
        Tries("load_payload", <<v>>, load_payload(rq, v)) /\ UNCHANGED inserted

AddPayload ==
    \E k \in PayloadKeys, v \in PayloadValues :
        Returns("add_payload", <<k, v>>, add_payload(rq, k, v))

AddForm == \E f \in FormFields : Returns("add_form", f, add_form(rq, f[1], f[2]))

Apply ==
    \E n \in Network :
        LET r == apply(rq, n)
        IN  /\ CanCall
            /\ rs' = r.res
            /\ sent' = sent \o r.wire
            /\ net' = IF r.wire = <<>> /\ n # ClientError THEN NoNet ELSE n
            /\ call' = Called("apply", <<>>)
            /\ calls' = calls + 1
            /\ UNCHANGED <<rq, err, inserted>>

ImageIdle ==
    /\ pc = "idle"
    /\ init_rs = RsDefault
    /\ jwt = <<>>
    /\ prq = from_static(BaseUrl).val
    /\ attempt = 0
    /\ fetched = <<>>
    /\ sleeps = 0
    /\ clock = 0
    /\ file = <<>>
    /\ result = Running

Init == RqInit /\ ImageIdle

Next ==
    \/ Uri /\ UNCHANGED imagevars
    \/ Method /\ UNCHANGED imagevars
    \/ AddSecretHeader /\ UNCHANGED imagevars
    \/ AddHeader /\ UNCHANGED imagevars
    \/ WithJson /\ UNCHANGED imagevars
    \/ AddParams /\ UNCHANGED imagevars
    \/ LoadPayload /\ UNCHANGED imagevars
    \/ AddPayload /\ UNCHANGED imagevars
    \/ AddForm /\ UNCHANGED imagevars
    \/ Apply /\ UNCHANGED imagevars

Spec == Init /\ [][Next]_vars

----------------------------------------------------------------------------
(* Payload::image (ai/ycloudml/image.rs:131-165)                           *)

\* the base URL of the operations endpoint
URL == "https://llm.api.cloud.yandex.net"

\* serde_json::from_value::<Response> (image.rs:49-70): description, done
\* and id are required, response is optional and, when present, an Object
\* with @type, image and modelVersion
FromValue(v) ==
    IF v.kind # "object" THEN Err("serde_json::Error")
    ELSE LET f == v.fields
             IsStr(g, k) == k \in DOMAIN g /\ g[k].kind = "string"
         IN  IF ~(IsStr(f, "description") /\ IsStr(f, "id")
                  /\ "done" \in DOMAIN f /\ f["done"].kind = "bool")
             THEN Err("serde_json::Error")
             ELSE IF "response" \notin DOMAIN f \/ f["response"].kind = "null"
             THEN Ok([id |-> f["id"].s, done |-> f["done"].b, response |-> None])
             ELSE IF f["response"].kind = "object"
                     /\ IsStr(f["response"].fields, "@type")
                     /\ IsStr(f["response"].fields, "image")
                     /\ IsStr(f["response"].fields, "modelVersion")
             THEN Ok([id       |-> f["id"].s,
                      done     |-> f["done"].b,
                      response |-> Some([image |-> f["response"].fields["image"].s])])
             ELSE Err("serde_json::Error")

\* BASE64_STANDARD.decode: the bytes, or an error on text that is not base64
Base64Decode(text) ==
    CASE text = "aGk=" -> Ok(<<104, 105>>)
      [] text = ""     -> Ok(<<>>)
      [] OTHER         -> Err("base64::DecodeError")

IsWhitespace(c) == c \in {" ", "\t", "\n", "\r"}

\* str::trim
RECURSIVE Trim(_)
Trim(str) ==
    IF str = <<>> THEN str
    ELSE IF IsWhitespace(Head(str)) THEN Trim(Tail(str))
    ELSE IF IsWhitespace(str[Len(str)]) THEN Trim(SubSeq(str, 1, Len(str) - 1))
    ELSE str

Bearer == <<"B","e","a","r","e","r"," ">>

Authorization == <<"a","u","t","h","o","r","i","z","a","t","i","o","n">>

\* format!("/operations/{}", id)
OperationUri(id) == IF id = "op1" THEN "/operations/op1" ELSE "/operations/"

\* lines 139-143
StatusRequest(id, token) ==
    LET a == from_static(URL)
        b == IF a.ok THEN method(uri(a.val, OperationUri(id)), GET) ELSE a
        c == IF b.ok THEN add_secret_header(b.val, Authorization, Bearer \o Trim(token)) ELSE b
    IN  IF c.ok THEN with_json(c.val) ELSE c

max_attempts == 10

SleepSecs == 20

TimeoutAfter(n) ==
    [ok |-> FALSE, err |-> "Image generation did not complete after {} attempts", arg |-> n]

Jwts == {<<"t">>, <<" ","t","\n">>, <<"t","\n","t">>}

InitialData == {JObj(Operation(FALSE)), JObj(EmptyMap), JNull}

ImageNetwork ==
    {ClientError, SendError}
    \cup {Response(200, b, TRUE) :
            b \in {BodyPending, BodyDoneNoResult, BodyDone, BodyDoneBadImage,
                   BodyNoId, BodyNull, BodyText}}
    \cup {Response(500, BodyText, TRUE), Response(404, BodyDone, TRUE),
          Response(200, BodyDone, FALSE)}

ImageInit ==
    /\ pc = "start"
    /\ init_rs \in {[RsDefault EXCEPT !.data = d] : d \in InitialData}
    /\ jwt \in Jwts
    /\ prq = from_static(URL).val
    /\ attempt = 0
    /\ fetched = <<>>
    /\ sleeps = 0
    /\ clock = 0
    /\ file = <<>>
    /\ result = Running

Return(r) ==
    /\ result' = r
    /\ pc' = "done"

\* lines 135-147: decode the argument, build the status request, enter the loop
Setup ==
    /\ pc = "start"
    /\ LET r == FromValue(init_rs.data)
           q == IF r.ok THEN StatusRequest(r.val.id, jwt) ELSE r
       IN  IF ~q.ok
           THEN Return(q) /\ UNCHANGED <<prq, attempt>>
           ELSE IF max_attempts >= 1
           THEN prq' = q.val /\ attempt' = 1 /\ pc' = "fetch" /\ UNCHANGED result
           ELSE prq' = q.val /\ Return(TimeoutAfter(max_attempts)) /\ UNCHANGED attempt
    /\ UNCHANGED <<init_rs, jwt, fetched, sleeps, clock, file>>

\* FetchStep with `if rs.done { return Ok(()) }`: done alone completes
FetchStepDoneCompletes(n, written) ==
    /\ pc = "fetch"
    /\ LET a == apply(prq, n)
           d == IF a.res.ok THEN FromValue(a.res.val.data) ELSE a.res
           ready == d.ok /\ d.val.done
           buf == IF ready /\ d.val.response.some
                  THEN Base64Decode(d.val.response.val.image)
                  ELSE Ok(<<>>)
       IN  /\ fetched' = Append(fetched, n)
           /\ IF ~d.ok
              THEN Return(d) /\ file' = file /\ written = 0
              ELSE IF ~ready
              THEN pc' = "sleep" /\ UNCHANGED <<result, file>> /\ written = 0
              ELSE IF ~buf.ok
              THEN Return(buf) /\ file' = file /\ written = 0
              ELSE /\ written \in 0..Len(buf.val)
                   /\ file' = file \o SubSeq(buf.val, 1, written)
                   /\ Return(IF written = Len(buf.val) THEN Ok(<<>>) ELSE Err("io::Error"))
    /\ UNCHANGED <<init_rs, jwt, prq, attempt, sleeps, clock>>

\* FetchStep without the `return Ok(())` of line 154: the loop goes on
FetchStepNoReturn(n, written) ==
    /\ pc = "fetch"
    /\ LET a == apply(prq, n)
           d == IF a.res.ok THEN FromValue(a.res.val.data) ELSE a.res
           ready == d.ok /\ d.val.done /\ d.val.response.some
           buf == IF ready THEN Base64Decode(d.val.response.val.image) ELSE d
       IN  /\ fetched' = Append(fetched, n)
           /\ IF ~d.ok
              THEN Return(d) /\ file' = file /\ written = 0
              ELSE IF ~ready
              THEN pc' = "sleep" /\ UNCHANGED <<result, file>> /\ written = 0
              ELSE IF ~buf.ok
              THEN Return(buf) /\ file' = file /\ written = 0
              ELSE /\ written \in 0..Len(buf.val)
                   /\ file' = file \o SubSeq(buf.val, 1, written)
                   /\ IF written = Len(buf.val)
                      THEN pc' = "sleep" /\ UNCHANGED result
                      ELSE Return(Err("io::Error"))
    /\ UNCHANGED <<init_rs, jwt, prq, attempt, sleeps, clock>>

\* FetchStep that treats a failed fetch as not ready: it sleeps and tries again
FetchStepRetries(n, written) ==
    /\ pc = "fetch"
    /\ LET a == apply(prq, n)
           d == IF a.res.ok THEN FromValue(a.res.val.data) ELSE a.res
           ready == d.ok /\ d.val.done /\ d.val.response.some
           buf == IF ready THEN Base64Decode(d.val.response.val.image) ELSE d
       IN  /\ fetched' = Append(fetched, n)
           /\ IF ~ready
              THEN pc' = "sleep" /\ UNCHANGED <<result, file>> /\ written = 0
              ELSE IF ~buf.ok
              THEN Return(buf) /\ file' = file /\ written = 0
              ELSE /\ written \in 0..Len(buf.val)
                   /\ file' = file \o SubSeq(buf.val, 1, written)
                   /\ Return(IF written = Len(buf.val) THEN Ok(<<>>) ELSE Err("io::Error"))
    /\ UNCHANGED <<init_rs, jwt, prq, attempt, sleeps, clock>>

\* lines 148-156: one status fetch, and the write when the image is there.
\* File::write_all either writes the whole buffer or fails having written
\* some shorter prefix of it.
FetchStep(n, written) ==
    /\ pc = "fetch"
    /\ LET a == apply(prq, n)
           d == IF a.res.ok THEN FromValue(a.res.val.data) ELSE a.res
           ready == d.ok /\ d.val.done /\ d.val.response.some
           buf == IF ready THEN Base64Decode(d.val.response.val.image) ELSE d
       IN  /\ fetched' = Append(fetched, n)
           /\ IF ~d.ok
              THEN Return(d) /\ file' = file /\ written = 0
              ELSE IF ~ready
              THEN pc' = "sleep" /\ UNCHANGED <<result, file>> /\ written = 0
              ELSE IF ~buf.ok
              THEN Return(buf) /\ file' = file /\ written = 0
              ELSE /\ written \in 0..Len(buf.val)
                   /\ file' = file \o SubSeq(buf.val, 1, written)
                   /\ Return(IF written = Len(buf.val) THEN Ok(<<>>) ELSE Err("io::Error"))
    /\ UNCHANGED <<init_rs, jwt, prq, attempt, sleeps, clock>>

Fetch == \E n \in ImageNetwork, written \in 0..2 : FetchStep(n, written)

\* Sleep with the loop written 0..=max_attempts: one iteration too many
SleepOneMore ==
    /\ pc = "sleep"
    /\ sleeps' = sleeps + 1
    /\ clock' = clock + SleepSecs
    /\ IF attempt <= max_attempts
       THEN attempt' = attempt + 1 /\ pc' = "fetch" /\ UNCHANGED result
       ELSE Return(TimeoutAfter(max_attempts)) /\ UNCHANGED attempt
    /\ UNCHANGED <<init_rs, jwt, prq, fetched, file>>

\* Sleep with `if attempt < max_attempts { sleep }`: no sleep after the last fetch
SleepSkipsLast ==
    /\ pc = "sleep"
    /\ IF attempt < max_attempts
       THEN /\ sleeps' = sleeps + 1
            /\ clock' = clock + SleepSecs
            /\ attempt' = attempt + 1 /\ pc' = "fetch" /\ UNCHANGED result
       ELSE /\ Return(TimeoutAfter(max_attempts))
            /\ UNCHANGED <<attempt, sleeps, clock>>
    /\ UNCHANGED <<init_rs, jwt, prq, fetched, file>>

\* lines 158-164: the sleep, then the next iteration or the end of the loop
Sleep ==
    /\ pc = "sleep"
    /\ sleeps' = sleeps + 1
    /\ clock' = clock + SleepSecs
    /\ IF attempt < max_attempts
       THEN attempt' = attempt + 1 /\ pc' = "fetch" /\ UNCHANGED result
       ELSE Return(TimeoutAfter(max_attempts)) /\ UNCHANGED attempt
    /\ UNCHANGED <<init_rs, jwt, prq, fetched, file>>

InitImage == RqInit /\ ImageInit

NextImage ==
    \/ Setup /\ UNCHANGED rqvars
    \/ Fetch /\ UNCHANGED rqvars
    \/ Sleep /\ UNCHANGED rqvars

SpecImage == InitImage /\ [][NextImage]_vars

----------------------------------------------------------------------------
(* What a status fetch reported, as Payload::image reads it (lines 148-151) *)

\* the fetch returned an envelope that decodes as an operation status
Reported(n) ==
    /\ n.kind = "response"
    /\ Receive(n).ok
    /\ FromValue(Receive(n).val.data).ok

StatusOf(n) == FromValue(Receive(n).val.data).val

DoneFalse(n) == Reported(n) /\ ~StatusOf(n).done

DoneWithoutResult(n) == Reported(n) /\ StatusOf(n).done /\ ~StatusOf(n).response.some

DoneWithResult(n) == Reported(n) /\ StatusOf(n).done /\ StatusOf(n).response.some

NotReady(n) == DoneFalse(n) \/ DoneWithoutResult(n)

ImageOf(n) == StatusOf(n).response.val.image

IsStrictPrefix(p, q) == Len(p) < Len(q) /\ p = SubSeq(q, 1, Len(p))

----------------------------------------------------------------------------
(* Claims about Payload::image, checked under SpecImage *)

\* C1: when every status fetch reports done=false, the poller makes exactly
\* 10 status fetches, never an 11th, and then fails with the timeout error,
\* whose message carries the attempt count 10.
C1_Exhaustion ==
    (\A i \in 1..Len(fetched) : DoneFalse(fetched[i]))
        => /\ Len(fetched) <= 10
           /\ (pc = "done" /\ attempt >= 1)
                 => /\ Len(fetched) = 10
                    /\ attempt = 10
                    /\ result = TimeoutAfter(10)

C1_Witness ==
    /\ pc = "done"
    /\ Len(fetched) = 10
    /\ \A i \in 1..10 : DoneFalse(fetched[i])
    /\ result = TimeoutAfter(10)

\* C2 as stated: when the first status with done=true and a result is the
\* k-th fetch and the earlier ones are not ready, the poller has completed
\* after exactly k fetches with success and no error.
C2_AlwaysSucceeds ==
    \A k \in 1..Len(fetched) :
        (DoneWithResult(fetched[k]) /\ \A j \in 1..(k - 1) : NotReady(fetched[j]))
            => /\ Len(fetched) = k
               /\ pc = "done"
               /\ result = Ok(<<>>)

\* C2 amended: in that case the poller stops after exactly k fetches and
\* fetches no more; it returns success, with the decoded image in the
\* file, when the image is valid base64 and the write succeeds, and returns
\* the decode error or the I/O error otherwise.
C2_Completion ==
    \A k \in 1..Len(fetched) :
        (k <= 10 /\ DoneWithResult(fetched[k]) /\ \A j \in 1..(k - 1) : NotReady(fetched[j]))
            => /\ Len(fetched) = k
               /\ attempt = k
               /\ pc = "done"
               /\ LET buf == Base64Decode(ImageOf(fetched[k]))
                  IN  IF ~buf.ok
                      THEN result = Err("base64::DecodeError") /\ file = <<>>
                      ELSE \/ result = Ok(<<>>) /\ file = buf.val
                           \/ result = Err("io::Error") /\ IsStrictPrefix(file, buf.val)

C2_Witness ==
    /\ Len(fetched) = 3
    /\ DoneFalse(fetched[1])
    /\ DoneFalse(fetched[2])
    /\ DoneWithResult(fetched[3])
    /\ pc = "done"
    /\ result = Ok(<<>>)
    /\ file = <<104, 105>>

\* C3: a status fetch that returns done=true with no result is treated
\* exactly like done=false: the poller does not complete and writes
\* nothing, sleeps the fixed 20 seconds and retries (or, after the 10th
\* fetch, times out); it never completes on a fetch that lacks a result.
C3_PendingStaysPending ==
    LET k == Len(fetched)
    IN  /\ (k >= 1 /\ NotReady(fetched[k]))
              => /\ file = <<>>
                 /\ clock = 20 * sleeps
                 /\ \/ pc = "sleep" /\ sleeps = k - 1 /\ attempt = k /\ result = Running
                    \/ pc = "fetch" /\ sleeps = k /\ attempt = k + 1 /\ result = Running
                    \/ pc = "done" /\ sleeps = k /\ k = 10 /\ result = TimeoutAfter(10)
        /\ result = Ok(<<>>) => (k >= 1 /\ DoneWithResult(fetched[k]))

C3_Witness ==
    /\ Len(fetched) = 2
    /\ DoneWithoutResult(fetched[1])
    /\ DoneFalse(fetched[2])
    /\ pc = "sleep"
    /\ clock = 20
    /\ file = <<>>

----------------------------------------------------------------------------
(* Claims about Rq and Rq::apply, checked under Spec *)

\* the last Rq::apply sent its request, got a response and returned Ok(Rs)
Returned == rs # NoRs /\ rs.ok

FourVerbs == {GET, POST, PUT, DELETE}

\* C4: for every response whose status is not a success, the envelope that
\* Rq::apply returns carries that status in its status field.
C4_StatusCodeSignalsFailure ==
    (Returned /\ ~is_success(net.status)) => rs.val.status = net.status

\* C5 as stated: against a non-2xx response (whose body is read) Rq::apply
\* returns no error but an envelope whose raw is the body text and whose
\* data is the empty JSON object.
C5_DefaultIsEmptyObject ==
    (/\ rs # NoRs /\ net.kind = "response"
     /\ ~is_success(net.status) /\ net.readable)
        => /\ rs.ok
           /\ rs.val.raw = Some(net.body)
           /\ rs.val.data = JObj(EmptyMap)

\* C5 amended: against a non-2xx response whose body can be read Rq::apply
\* returns no error but an envelope whose raw is the body text and whose
\* data is left at its default, JSON null; a body that cannot be read is
\* returned as the transport's error.
C5_NonSuccessEnvelope ==
    (rs # NoRs /\ net.kind = "response" /\ ~is_success(net.status))
        => IF net.readable
           THEN /\ rs.ok
                /\ rs.val.raw = Some(net.body)
                /\ rs.val.data = JNull
           ELSE rs = Err("reqwest::Error")

C5_Witness ==
    /\ Returned
    /\ net.status = 404
    /\ rs.val.raw = Some(BodyObject)
    /\ rs.val.data = JNull

\* C6: in every envelope Rq::apply returns, raw is set if and only if the
\* status was not a success or the body of a success did not parse as JSON,
\* and then data is left default; data holds the parsed body, with raw
\* absent, if and only if the status was a success and the body parsed.
C6_ExactlyOneRepresentation ==
    Returned =>
        LET parsed == FromStr(net.body)
        IN  /\ rs.val.raw.some <=> (~is_success(net.status) \/ ~parsed.ok)
            /\ rs.val.raw.some => (rs.val.raw.val = net.body /\ rs.val.data = JNull)
            /\ (~rs.val.raw.some /\ rs.val.data = parsed.val)
                   <=> (is_success(net.status) /\ parsed.ok)

C6_Witness ==
    /\ Returned
    /\ net.status = 200
    /\ net.body = BodyText
    /\ rs.val.raw = Some(BodyText)
    /\ rs.val.data = JNull

C8_ValueAlwaysChecked ==
    (call.op = "add_header" /\ ~HeaderValueFromStr(call.args[2]).ok)
        => err = "InvalidHeaderValue"

\* C8 amended: Rq::add_header looks at the value only once the name is
\* accepted: with a valid name an illegal value fails the call and aborts
\* the chain; with an invalid name the call succeeds whatever the value.
C8_ValueCheckedAfterName ==
    call.op = "add_header"
        => LET name_ok  == HeaderNameFromBytes(call.args[1]).ok
               value_ok == HeaderValueFromStr(call.args[2]).ok
           IN  /\ (name_ok /\ ~value_ok) => (err = "InvalidHeaderValue" /\ ~CanCall)
               /\ ~name_ok => err = NoErr
               /\ (name_ok /\ value_ok) => err = NoErr

C8_Witness ==
    /\ call.op = "add_header"
    /\ call.args = <<<<"x"," ","k">>, <<"a","\n","b">>>>
    /\ err = NoErr

\* C9: Rq::add_header with an invalid name and a valid value returns Ok and
\* leaves every field of the builder as it was.
C9_InvalidNameSkipped ==
    [][(/\ calls' = calls + 1
        /\ call'.op = "add_header"
        /\ ~HeaderNameFromBytes(call'.args[1]).ok
        /\ HeaderValueFromStr(call'.args[2]).ok)
           => (rq' = rq /\ err' = NoErr)]_vars

C9_Witness ==
    /\ call.op = "add_header"
    /\ call.args = <<<<"x"," ","k">>, <<"b">>>>
    /\ err = NoErr
    /\ calls = 2
    /\ DOMAIN rq.headers = {<<"x","-","k">>}

\* C10: Rq::add_secret_header fails when the name is invalid or the value
\* is invalid, never skipping an invalid name, and otherwise inserts the
\* header with the given value, marked sensitive.
C10_SecretHeader ==
    call.op = "add_secret_header"
        => LET name  == HeaderNameFromBytes(call.args[1])
               value == HeaderValueFromStr(call.args[2])
           IN  IF name.ok /\ value.ok
               THEN /\ err = NoErr
                    /\ name.val \in DOMAIN rq.headers
                    /\ rq.headers[name.val] = [value |-> call.args[2], sensitive |-> TRUE]
               ELSE err \in {"InvalidHeaderName", "InvalidHeaderValue"} /\ ~CanCall

C10_Witness ==
    /\ call.op = "add_secret_header"
    /\ call.args = <<<<"x"," ","k">>, <<"a">>>>
    /\ err = "InvalidHeaderName"

\* a header name as HTTP compares it: without case
Lowered(name) == [i \in 1..Len(name) |-> ToLower(name[i])]

\* C11: after any sequence of add_header, add_secret_header and with_json
\* calls the header map holds one entry per case-insensitive name inserted,
\* no two of its names differ by case only, the number of entries is the
\* number of distinct names inserted, and each entry carries the value and
\* the sensitive/plain kind of the last insertion under its name.
C11_LastWriteWins ==
    LET n == Len(inserted)
        names == {Lowered(inserted[i].name) : i \in 1..n}
        LastOf(name) ==
            inserted[CHOOSE i \in 1..n :
                        /\ Lowered(inserted[i].name) = name
                        /\ \A j \in (i + 1)..n : Lowered(inserted[j].name) # name]
    IN  /\ DOMAIN rq.headers = names
        /\ Cardinality(DOMAIN rq.headers) = Cardinality(names)
        /\ \A a \in DOMAIN rq.headers, b \in DOMAIN rq.headers :
               Lowered(a) = Lowered(b) => a = b
        /\ \A name \in DOMAIN rq.headers :
               rq.headers[name] = [value     |-> LastOf(name).value,
                                   sensitive |-> LastOf(name).sensitive]

C11_Witness ==
    /\ Len(inserted) = 3
    /\ inserted[1] = [name |-> <<"X","-","K">>, value |-> <<"a">>, sensitive |-> TRUE]
    /\ inserted[3] = [name |-> <<"x","-","k">>, value |-> <<"b">>, sensitive |-> FALSE]
    /\ Cardinality(DOMAIN rq.headers) = 1
    /\ rq.headers[<<"x","-","k">>] = [value |-> <<"b">>, sensitive |-> FALSE]

\* C12: every request Rq::apply sends carries exactly one body: the form
\* fields, and nothing of the JSON body, when form fields were added; the
\* JSON body otherwise, the empty object included.  The headers and the
\* query parameters of the Rq are attached whichever body is sent.
C12_FormOrJson ==
    \A i \in 1..Len(sent) :
        LET r == sent[i]
        IN  /\ r.headers = rq.headers
            /\ r.query = rq.params
            /\ IF rq.form # <<>>
               THEN r.body = [kind |-> "form", form |-> rq.form]
               ELSE r.body = [kind |-> "json", json |-> rq.json]

C12_Witness ==
    /\ Len(sent) = 1
    /\ rq.form # <<>>
    /\ rq.json # JObj(EmptyMap)
    /\ sent[1].body.kind = "form"

\* C13: load_payload of a value that is not a JSON object fails with the
\* invalid-payload error and leaves the Rq as it was; load_payload of an
\* object returns the Rq whose body has the keys of the previous body and of
\* the argument, each key of the argument with the argument's value and every
\* other key with the value it had, and nothing else of the Rq changed.
C13_LoadPayloadMerges ==
    [][(calls' = calls + 1 /\ call'.op = "load_payload")
        => LET value == call'.args[1]
           IN  IF value.kind # "object"
               THEN err' = "Payload value must be valid JSON" /\ rq' = rq
               ELSE /\ err' = NoErr
                    /\ rq'.json.kind = "object"
                    /\ DOMAIN rq'.json.fields
                         = DOMAIN rq.json.fields \cup DOMAIN value.fields
                    /\ \A k \in DOMAIN rq'.json.fields :
                           rq'.json.fields[k] = IF k \in DOMAIN value.fields
                                                THEN value.fields[k]
                                                ELSE rq.json.fields[k]
                    /\ rq' = [rq EXCEPT !.json = rq'.json]]_vars

C13_Witness ==
    /\ calls = 3
    /\ call = Called("load_payload", <<JObj(("a" :> JNum(2)) @@ ("b" :> JNum(3)))>>)
    /\ err = NoErr
    /\ rq.json = JObj(("a" :> JNum(2)) @@ ("b" :> JNum(3)) @@ ("baz" :> JStr("bar")))

\* C14: add_params replaces the query parameters: after the call they are
\* exactly the pairs of that call, in the order given, whatever they were
\* before, and nothing else of the Rq changes; no other call touches them.
\* So after any sequence of calls they are the pairs of the last add_params.
C14_AddParamsReplaces ==
    [][IF calls' = calls + 1 /\ call'.op = "add_params"
       THEN rq' = [rq EXCEPT !.params = call'.args[1]]
       ELSE rq'.params = rq.params]_vars

C14_Witness ==
    /\ calls = 2
    /\ call = Called("add_params", <<<<<<"page", "2">>>>>>)
    /\ rq.params = <<<<"page", "2">>>>
    /\ Len(rq.params) = 1

\* a step that is one call of Rq::apply
ApplyStep == calls' = calls + 1 /\ call'.op = "apply"

\* the requests that step put on the wire
RoundTrips == Len(sent') - Len(sent)

\* C15 as stated: each Rq::apply makes at most one round trip; exactly one
\* when the URL resolves and the method is one of the four verbs; none when
\* the URL does not resolve, which is the error returned whatever the method
\* is, or when the URL resolves and the method is not one of the four.
C15_OneRoundTripWhenUrlAndVerbOk ==
    [][ApplyStep
        => /\ RoundTrips <= 1
           /\ IF ~url(rq).ok
              THEN RoundTrips = 0 /\ rs' = url(rq)
              ELSE IF rq.method \notin FourVerbs
              THEN RoundTrips = 0 /\ rs' = Err("Unsupported HTTP method")
              ELSE RoundTrips = 1]_vars

\* C15, amended: each Rq::apply makes at most one round trip and never sends
\* again, a failed send included.  It makes none when the HTTP client cannot
\* be built, which is checked before anything else and returns that error;
\* otherwise none when the URL does not resolve (checked next, the error
\* returned whatever the method is), none when the method is not one of the
\* four verbs (checked after the URL), and exactly one, the request built
\* from the Rq, in every other case.
C15_AtMostOneRoundTrip ==
    [][ApplyStep
        => /\ RoundTrips <= 1
           /\ IF net' = ClientError
              THEN RoundTrips = 0 /\ rs' = Err("reqwest::Error")
              ELSE IF ~url(rq).ok
              THEN RoundTrips = 0 /\ rs' = url(rq)
              ELSE IF rq.method \notin FourVerbs
              THEN RoundTrips = 0 /\ rs' = Err("Unsupported HTTP method")
              ELSE sent' = Append(sent, Request(rq, url(rq).val))]_vars

C15_Witness ==
    /\ calls = 2
    /\ call = Called("apply", <<>>)
    /\ Len(sent) = 2
    /\ net = SendError
    /\ rs = Err("reqwest::Error")

----------------------------------------------------------------------------
(* Further claims about Payload::image, checked under SpecImage *)

\* the error a failed status fetch ends with: that of Rq::apply, or that of
\* decoding the envelope's data as an operation status
FetchError(n) ==
    IF n.kind = "response" /\ Receive(n).ok
    THEN FromValue(Receive(n).val.data)
    ELSE Err("reqwest::Error")

\* C16: a failed status fetch is not retried.  When a fetch ends in a network
\* error or returns an envelope whose data does not decode as an operation
\* status (every response that is not 2xx or not JSON among them), it is the
\* last fetch: the poller has ended with that error, has not slept after it
\* and has written nothing to the file, whatever attempts remain.  When the
\* initial response does not decode (it has no operation id), the poller
\* ends with that error without any fetch.
C16_FailedFetchNotRetried ==
    /\ \A i \in 1..Len(fetched) :
           ~Reported(fetched[i])
               => /\ i = Len(fetched)
                  /\ pc = "done"
                  /\ result = FetchError(fetched[i])
                  /\ ~result.ok
                  /\ attempt = i
                  /\ sleeps = i - 1
                  /\ file = <<>>
    /\ (pc # "start" /\ ~FromValue(init_rs.data).ok)
           => /\ pc = "done"
              /\ result = FromValue(init_rs.data)
              /\ fetched = <<>>
              /\ sleeps = 0
              /\ file = <<>>

C16_Witness ==
    /\ Len(fetched) = 3
    /\ DoneFalse(fetched[1])
    /\ DoneFalse(fetched[2])
    /\ fetched[3] = Response(404, BodyDone, TRUE)
    /\ pc = "done"
    /\ attempt < max_attempts
    /\ result = Err("serde_json::Error")

\* C17: SleepSecs of sleep follow every fetch that is not ready, the last
\* of max_attempts included: before the k-th fetch and when the poller ends
\* at the k-th fetch it has slept k-1 times, and when it ends with the
\* timeout error it has made 10 fetches and slept 10 times, 200 seconds in
\* all, the error being returned only after the last sleep.
C17_SleepAfterEveryNotReady ==
    /\ clock = SleepSecs * sleeps
    /\ \A i \in 1..Len(fetched) :
           NotReady(fetched[i]) => (sleeps >= i \/ (i = Len(fetched) /\ pc = "sleep"))
    /\ pc = "fetch" => sleeps = Len(fetched) /\ attempt = sleeps + 1
    /\ pc = "sleep" => sleeps = Len(fetched) - 1
    /\ (pc = "done" /\ result # TimeoutAfter(max_attempts) /\ fetched # <<>>)
           => sleeps = Len(fetched) - 1
    /\ (pc = "done" /\ result = TimeoutAfter(max_attempts))
           => Len(fetched) = 10 /\ sleeps = 10 /\ clock = 200

C17_Witness ==
    /\ pc = "done"
    /\ result = TimeoutAfter(max_attempts)
    /\ NotReady(fetched[10])
    /\ sleeps = 10
    /\ clock = 200

====
